---- MODULE Spec2Model ----
(***************************************************************************)
(* A model of the CMVC extension (src/src/extension.ts) and of its older   *)
(* single-tree variant (src/unnamed/part_000).                             *)
(*                                                                         *)
(*  - CMVCService: the configuration {family, release, defect}, its        *)
(*    persistence in the host's workspaceState, and the commands checkin,  *)
(*    checkout, view and create, each an asynchronous handler that         *)
(*    suspends at its awaits (input box, external process, document).      *)
(*  - The file tree: the lazy listing CMVCFilesProvider.getChildren /      *)
(*    getDirectoryContents and the eager listing                           *)
(*    CMVCExplorerProvider.getFiles / getFilesRecursively, over a          *)
(*    filesystem whose directories return their entries in any order.      *)
(*                                                                         *)
(* Strings are TLA+ strings; a string that the code takes apart (a file    *)
(* path for path.basename, an entry name for startsWith and sort) is a     *)
(* sequence of one-character strings.  An optional value (the result of    *)
(* showInputBox, a command's item argument) is the empty sequence for      *)
(* undefined and a one-element sequence otherwise.                         *)
(***************************************************************************)
EXTENDS Naturals, Sequences, FiniteSets, Bags, TLC

VARIABLES
    config,          \* CMVCService.config : [family, release, defect]
    workspaceState,  \* context.workspaceState : key -> stored string
    handlers,        \* bag of handlers suspended at an await
    call,            \* the handler step taken last: what ran, on what input
    spawned,         \* commands handed to execAsync by the last step
    shown,           \* messages shown by the last step
    opened,          \* documents created by the last step (their content)
    refreshed,       \* tree-change events fired by the last step
    workspaceOpen,   \* vscode.workspace.workspaceFolders?.[0] is defined
    watcher,         \* CMVCFilesProvider.fileSystemWatcher is set and not disposed
    fs,              \* the workspace folder: path -> [isDir]
    items,           \* the result of the last step, when it was a listing
    listed,          \* the last step on the tree: what, where, which fault
    held             \* the objects callers keep from getConfig(), by slot

vars == << config, workspaceState, handlers, call, spawned, shown, opened,
           refreshed, workspaceOpen, watcher, fs, items, listed, held >>

serviceVars == << config, workspaceState, handlers, call, spawned, shown, opened >>
treeVars == << workspaceOpen, watcher, fs, items, listed >>

(***************************************************************************)
(* Bounds and input sets                                                   *)
(***************************************************************************)
\* Handlers that may be suspended at an await at the same time.
MaxHandlers == 2

\* Entries (files and directories) in the workspace folder.
MaxNodes == 2

\* Objects returned by getConfig() that callers keep at the same time.
MaxHeld == 1

None == << >>
Some(v) == << v >>

\* Values a user types into the input boxes (the empty string included).
FamilyValues == { "", "F1" }
ReleaseValues == { "", "R1" }
DefectValues == { "", "D1" }
ComponentValues == { "", "C1" }

\* File paths (item.resourceUri.fsPath), as character sequences.
PathWsATxt == << "/", "w", "s", "/", "a", ".", "t", "x", "t" >>
PathSubB == << "/", "w", "s", "/", "d", "/", "b" >>
Paths == { PathWsATxt, PathSubB }

\* The item argument of a file command: undefined, or a FileItem.
ItemArgs == { None } \cup { Some(p) : p \in Paths }

\* What the external process can produce.
Stdouts == { "", "out" }
Stderrs == { "", "err" }
ExecErrorText == "Error: Command failed"
HostErrorText == "Error: host"

RECURSIVE Str(_)
Str(cs) == IF cs = << >> THEN "" ELSE cs[1] \o Str(Tail(cs))

(***************************************************************************)
(* CMVCService: configuration and persistence                              *)
(***************************************************************************)
KeyFamily == "cmvc.family"
KeyRelease == "cmvc.release"
KeyDefect == "cmvc.defect"
KeyLastComponent == "cmvc.lastComponent"

\* Memento.get(key, defaultValue)
MementoGet(ws, key, default) == IF key \in DOMAIN ws THEN ws[key] ELSE default

\* Memento.update(key, value) with a string value
MementoUpdate(ws, key, value) ==
    [ k \in DOMAIN ws \cup { key } |-> IF k = key THEN value ELSE ws[k] ]

EmptyConfig == [ family |-> "", release |-> "", defect |-> "" ]

LoadConfigWrongKey(ws) ==
    [ family  |-> MementoGet(ws, KeyFamily, ""),
      release |-> MementoGet(ws, KeyFamily, ""),
      defect  |-> MementoGet(ws, KeyDefect, "") ]

LoadConfig(ws) ==
    [ family  |-> MementoGet(ws, KeyFamily, ""),
      release |-> MementoGet(ws, KeyRelease, ""),
      defect  |-> MementoGet(ws, KeyDefect, "") ]

SaveConfigFamilyOnly(ws, cfg) == MementoUpdate(ws, KeyFamily, cfg.family)

SaveConfig(ws, cfg) ==
    MementoUpdate(
        MementoUpdate(
            MementoUpdate(ws, KeyFamily, cfg.family),
            KeyRelease, cfg.release),
        KeyDefect, cfg.defect)

GetConfig(cfg) == [ family |-> cfg.family, release |-> cfg.release, defect |-> cfg.defect ]

SetFamily(cfg, value) == [ cfg EXCEPT !.family = value ]

SetReleaseClearingDefect(cfg, value) == [ cfg EXCEPT !.release = value, !.defect = "" ]

SetRelease(cfg, value) == [ cfg EXCEPT !.release = value ]
SetDefect(cfg, value) == [ cfg EXCEPT !.defect = value ]

(***************************************************************************)
(* CMVCService: the commands                                               *)
(***************************************************************************)
\* JavaScript truthiness of a string: !s holds exactly for the empty string.
Truthy(s) == s # ""

CheckinAllowedNoDefect(cfg) == Truthy(cfg.family) /\ Truthy(cfg.release)

\* The negation of the guard of checkin and of checkout.
CheckinAllowed(cfg) == Truthy(cfg.family) /\ Truthy(cfg.release) /\ Truthy(cfg.defect)

ViewAllowedWithDefect(cfg) == Truthy(cfg.family) /\ Truthy(cfg.release) /\ Truthy(cfg.defect)

ViewAllowedFamilyOnly(cfg) == Truthy(cfg.family)

\* The negation of the guard of view.
ViewAllowed(cfg) == Truthy(cfg.family) /\ Truthy(cfg.release)

MsgSetAll == "Please set Family, Release, and Defect values first."
MsgSetTwo == "Please set Family and Release values first."
MsgNoFile == "No file selected for creation."
MsgNoComponent == "Component is required."

Error(text) == [ level |-> "error", text |-> text ]
Info(text) == [ level |-> "info", text |-> text ]

CheckinCommandSwapped(filePath, cfg) ==
    "File -checkin \"" \o Str(filePath) \o "\" -defect \"" \o cfg.defect
        \o "\" -release \"" \o cfg.family \o "\" -family \"" \o cfg.release \o "\""

CheckinCommand(filePath, cfg) ==
    "File -checkin \"" \o Str(filePath) \o "\" -defect \"" \o cfg.defect
        \o "\" -release \"" \o cfg.release \o "\" -family \"" \o cfg.family \o "\""

CheckoutCommand(filePath, cfg) ==
    "File -checkout \"" \o Str(filePath) \o "\" -defect \"" \o cfg.defect
        \o "\" -release \"" \o cfg.release \o "\" -family \"" \o cfg.family \o "\""

ViewCommand(filePath, cfg) ==
    "File -view \"" \o Str(filePath)
        \o "\" -release \"" \o cfg.release \o "\" -family \"" \o cfg.family \o "\""

CreateCommand(filePath, component, cfg) ==
    "File -create \"" \o Str(filePath) \o "\" -component \"" \o component
        \o "\" -defect \"" \o cfg.defect
        \o "\" -release \"" \o cfg.release \o "\" -family \"" \o cfg.family \o "\""

\* path.basename (POSIX): trailing separators are dropped, then the part
\* after the last separator is taken.
RECURSIVE StripTrailingSlashes(_)
StripTrailingSlashes(p) ==
    IF p # << >> /\ p[Len(p)] = "/"
    THEN StripTrailingSlashes(SubSeq(p, 1, Len(p) - 1))
    ELSE p

RECURSIVE AfterLastSlash(_)
AfterLastSlash(p) ==
    IF \E i \in 1..Len(p) : p[i] = "/"
    THEN AfterLastSlash(Tail(p))
    ELSE p

Basename(p) == AfterLastSlash(StripTrailingSlashes(p))

\* The word each command puts in its messages.
Verb(kind) ==
    CASE kind = "checkin"  -> "Checkin"
      [] kind = "checkout" -> "Checkout"
      [] kind = "view"     -> "View"
      [] kind = "create"   -> "Create"

SuccessMessage(kind, filePath) ==
    CASE kind = "checkin"  -> "Successfully checked in: " \o Str(Basename(filePath))
      [] kind = "checkout" -> "Successfully checked out: " \o Str(Basename(filePath))
      [] kind = "create"   -> "Successfully created: " \o Str(filePath)

FailedMessage(kind, what) == Verb(kind) \o " failed: " \o what

\* The registered command ids and the service method each one runs.
CheckinIds == { "cmvc.checkin", "cmvc.checkinFile", "cmvc.checkinInline" }
CheckoutIds == { "cmvc.checkout", "cmvc.checkoutFile", "cmvc.checkoutInline" }
ViewIds == { "cmvc.view", "cmvc.viewFile", "cmvc.viewInline" }
SetIds == { "cmvc.setFamily", "cmvc.setRelease", "cmvc.setDefect" }

KindOf(id) ==
    CASE id \in CheckinIds  -> "checkin"
      [] id \in CheckoutIds -> "checkout"
      [] id \in ViewIds     -> "view"
      [] id = "cmvc.create" -> "create"
      [] id \in { "checkin", "checkout", "view", "create" } -> id

\* A suspended handler: what it runs (KindOf its command id; a setter keeps
\* its id), the await it is at, the file path it works on and (for view) the
\* stdout it holds.
Handler(id, pc, filePath, out) ==
    [ id |-> IF id \in SetIds THEN id ELSE KindOf(id),
      pc |-> pc, path |-> filePath, out |-> out ]

NoHandlers == EmptyBag
Suspend(t) == handlers (+) SetToBag({ t })
Resume(t) == handlers (-) SetToBag({ t })
Replace(t, u) == (handlers (-) SetToBag({ t })) (+) SetToBag({ u })
CanSuspend == BagCardinality(handlers) < MaxHandlers
Suspended == BagToSet(handlers)

\* What a step did, for the properties: what ran (as in Handler), the step
\* of the handler, the file path the handler works on, the step's input, the
\* configuration before the step and whether the handler is left suspended
\* at an await.
Call(id, step, filePath, arg, pre, pending) ==
    [ id |-> IF id \in SetIds \cup { "activate", "getChildren", "getConfig", "write" }
             THEN id ELSE KindOf(id),
      step |-> step, path |-> filePath, arg |-> arg, pre |-> pre,
      pending |-> pending ]

\* The path of an item argument.
PathOf(item) == IF item = None THEN None ELSE item[1]

Effects(c, sp, sh, op, rf) ==
    /\ call' = c
    /\ spawned' = sp
    /\ shown' = sh
    /\ opened' = op
    /\ refreshed' = rf

NoCall == Call("activate", "load", None, None, EmptyConfig, FALSE)

(***************************************************************************)
(* The command handlers registered by activate                             *)
(***************************************************************************)
FieldValues(id) ==
    CASE id = "cmvc.setFamily"  -> FamilyValues
      [] id = "cmvc.setRelease" -> ReleaseValues
      [] id = "cmvc.setDefect"  -> DefectValues

SetField(id, cfg, value) ==
    CASE id = "cmvc.setFamily"  -> SetFamily(cfg, value)
      [] id = "cmvc.setRelease" -> SetRelease(cfg, value)
      [] id = "cmvc.setDefect"  -> SetDefect(cfg, value)

\* cmvc.setFamily / cmvc.setRelease / cmvc.setDefect, up to the await of
\* showInputBox.
SetStart(id) ==
    /\ CanSuspend
    /\ handlers' = Suspend(Handler(id, "input", None, ""))
    /\ Effects(Call(id, "start", None, None, config, TRUE), << >>, << >>, << >>, << >>)
    /\ UNCHANGED << config, workspaceState >>

SetResolveSkippingEmpty(h, value) ==
    /\ h \in Suspended /\ h.id \in SetIds /\ h.pc = "input"
    /\ handlers' = Resume(h)
    /\ IF value # None /\ Truthy(value[1])
       THEN /\ config' = SetField(h.id, config, value[1])
            /\ workspaceState' = SaveConfig(workspaceState, config')
            /\ Effects(Call(h.id, "input", None, value, config, FALSE),
                       << >>, << >>, << >>, << "cmvcConfig" >>)
       ELSE /\ UNCHANGED << config, workspaceState >>
            /\ Effects(Call(h.id, "input", None, value, config, FALSE),
                       << >>, << >>, << >>, << >>)

\* The input box of a setter resolves: undefined when dismissed, else the
\* string typed.  A defined value is stored, all three fields are saved and
\* the configuration tree is refreshed.
SetResolve(h, value) ==
    /\ h \in Suspended /\ h.id \in SetIds /\ h.pc = "input"
    /\ handlers' = Resume(h)
    /\ IF value # None
       THEN /\ config' = SetField(h.id, config, value[1])
            /\ workspaceState' = SaveConfig(workspaceState, config')
            /\ Effects(Call(h.id, "input", None, value, config, FALSE),
                       << >>, << >>, << >>, << "cmvcConfig" >>)
       ELSE /\ UNCHANGED << config, workspaceState >>
            /\ Effects(Call(h.id, "input", None, value, config, FALSE),
                       << >>, << >>, << >>, << >>)

\* CMVCService.checkin and CMVCService.checkout, up to the await of
\* execAsync, behind the handler's test of its item.
StartDefectCommand(id, item, command) ==
    /\ UNCHANGED << config, workspaceState >>
    /\ IF item = None
       THEN /\ UNCHANGED handlers
            /\ Effects(Call(id, "start", PathOf(item), item, config, FALSE), << >>, << >>, << >>, << >>)
       ELSE IF ~CheckinAllowed(config)
       THEN /\ UNCHANGED handlers
            /\ Effects(Call(id, "start", PathOf(item), item, config, FALSE),
                       << >>, << Error(MsgSetAll) >>, << >>, << >>)
       ELSE /\ CanSuspend
            /\ handlers' = Suspend(Handler(id, "exec", item[1], ""))
            /\ Effects(Call(id, "start", PathOf(item), item, config, TRUE),
                       << command >>, << >>, << >>, << >>)

Checkin(id, item) ==
    /\ id \in CheckinIds
    /\ StartDefectCommand(id, item,
           IF item = None THEN "" ELSE CheckinCommand(item[1], config))

Checkout(id, item) ==
    /\ id \in CheckoutIds
    /\ StartDefectCommand(id, item,
           IF item = None THEN "" ELSE CheckoutCommand(item[1], config))

\* CMVCService.view, up to the await of execAsync.
View(id, item) ==
    /\ id \in ViewIds
    /\ UNCHANGED << config, workspaceState >>
    /\ IF item = None
       THEN /\ UNCHANGED handlers
            /\ Effects(Call(id, "start", PathOf(item), item, config, FALSE), << >>, << >>, << >>, << >>)
       ELSE IF ~ViewAllowed(config)
       THEN /\ UNCHANGED handlers
            /\ Effects(Call(id, "start", PathOf(item), item, config, FALSE),
                       << >>, << Error(MsgSetTwo) >>, << >>, << >>)
       ELSE /\ CanSuspend
            /\ handlers' = Suspend(Handler(id, "exec", item[1], ""))
            /\ Effects(Call(id, "start", PathOf(item), item, config, TRUE),
                       << ViewCommand(item[1], config) >>, << >>, << >>, << >>)

\* What execAsync settles with: a rejection (spawn failure, non-zero exit)
\* or { stdout, stderr }.
Rejected == [ rejected |-> TRUE, stdout |-> "", stderr |-> "" ]
Resolved(stdout, stderr) == [ rejected |-> FALSE, stdout |-> stdout, stderr |-> stderr ]
Outcomes == { Rejected } \cup { Resolved(o, e) : o \in Stdouts, e \in Stderrs }

SucceededIgnoringStderr(outcome) == ~outcome.rejected

\* Whether the handler takes its success branch.
Succeeded(outcome) == ~outcome.rejected /\ ~Truthy(outcome.stderr)

\* The text of the failure message for a settled process.
FailureText(kind, outcome) ==
    IF outcome.rejected
    THEN FailedMessage(kind, ExecErrorText)
    ELSE FailedMessage(kind, outcome.stderr)

ExecDoneRetrying(h, outcome) ==
    /\ h \in Suspended /\ h.pc = "exec"
    /\ UNCHANGED << config, workspaceState >>
    /\ LET kind == h.id
           c(pending) == Call(h.id, "exec", h.path, Some(outcome), config, pending)
       IN  IF ~Succeeded(outcome) /\ kind = "checkin"
           THEN /\ UNCHANGED handlers
                /\ Effects(c(TRUE), << CheckinCommand(h.path, config) >>,
                           << Error(FailureText(kind, outcome)) >>, << >>, << >>)
           ELSE IF ~Succeeded(outcome)
           THEN /\ handlers' = Resume(h)
                /\ Effects(c(FALSE), << >>, << Error(FailureText(kind, outcome)) >>,
                           << >>, << >>)
           ELSE IF kind = "view"
           THEN /\ handlers' = Replace(h, Handler(h.id, "open", h.path, outcome.stdout))
                /\ Effects(c(TRUE), << >>, << >>, << >>, << >>)
           ELSE /\ handlers' = Resume(h)
                /\ Effects(c(FALSE), << >>, << Info(SuccessMessage(kind, h.path)) >>,
                           << >>,
                           IF kind = "create" THEN << "cmvcFiles" >> ELSE << >>)

\* The external process of a suspended checkin, checkout, view or create
\* settles and the handler runs on from its await.
ExecDone(h, outcome) ==
    /\ h \in Suspended /\ h.pc = "exec"
    /\ UNCHANGED << config, workspaceState >>
    /\ LET kind == h.id
           c(pending) == Call(h.id, "exec", h.path, Some(outcome), config, pending)
       IN  IF ~Succeeded(outcome)
           THEN /\ handlers' = Resume(h)
                /\ Effects(c(FALSE), << >>, << Error(FailureText(kind, outcome)) >>,
                           << >>, << >>)
           ELSE IF kind = "view"
           THEN /\ handlers' = Replace(h, Handler(h.id, "open", h.path, outcome.stdout))
                /\ Effects(c(TRUE), << >>, << >>, << >>, << >>)
           ELSE /\ handlers' = Resume(h)
                /\ Effects(c(FALSE), << >>, << Info(SuccessMessage(kind, h.path)) >>,
                           << >>,
                           IF kind = "create" THEN << "cmvcFiles" >> ELSE << >>)

OpenDoneUncaught(h, ok) ==
    /\ h \in Suspended /\ h.pc = "open"
    /\ UNCHANGED << config, workspaceState >>
    /\ IF ok
       THEN /\ handlers' = Replace(h, Handler(h.id, "show", h.path, ""))
            /\ Effects(Call(h.id, "open", h.path, Some([ ok |-> ok, content |-> h.out ]), config, TRUE),
                       << >>, << >>, << h.out >>, << >>)
       ELSE /\ handlers' = Resume(h)
            /\ Effects(Call(h.id, "open", h.path, Some([ ok |-> ok, content |-> h.out ]), config, FALSE),
                       << >>, << >>, << >>, << >>)

\* openTextDocument({ content: stdout }) of a view settles.
OpenDone(h, ok) ==
    /\ h \in Suspended /\ h.pc = "open"
    /\ UNCHANGED << config, workspaceState >>
    /\ IF ok
       THEN /\ handlers' = Replace(h, Handler(h.id, "show", h.path, ""))
            /\ Effects(Call(h.id, "open", h.path, Some([ ok |-> ok, content |-> h.out ]), config, TRUE),
                       << >>, << >>, << h.out >>, << >>)
       ELSE /\ handlers' = Resume(h)
            /\ Effects(Call(h.id, "open", h.path, Some([ ok |-> ok, content |-> h.out ]), config, FALSE),
                       << >>, << Error(FailedMessage("view", HostErrorText)) >>,
                       << >>, << >>)

\* showTextDocument(document) of a view settles.
ShowDone(h, ok) ==
    /\ h \in Suspended /\ h.pc = "show"
    /\ UNCHANGED << config, workspaceState >>
    /\ handlers' = Resume(h)
    /\ Effects(Call(h.id, "show", h.path, Some(ok), config, FALSE),
               << >>,
               IF ok THEN << >> ELSE << Error(FailedMessage("view", HostErrorText)) >>,
               << >>, << >>)

\* cmvc.create, up to the await of showInputBox.
CreateStart(item) ==
    /\ UNCHANGED << config, workspaceState >>
    /\ IF item = None
       THEN /\ UNCHANGED handlers
            /\ Effects(Call("cmvc.create", "start", PathOf(item), item, config, FALSE),
                       << >>, << Error(MsgNoFile) >>, << >>, << >>)
       ELSE /\ CanSuspend
            /\ handlers' = Suspend(Handler("cmvc.create", "input", item[1], ""))
            /\ Effects(Call("cmvc.create", "start", PathOf(item), item, config, TRUE),
                       << >>, << >>, << >>, << >>)

RememberComponentOtherKey(ws, component) == MementoUpdate(ws, "cmvc.component", component)

\* context.workspaceState.update('cmvc.lastComponent', component)
RememberComponent(ws, component) == MementoUpdate(ws, KeyLastComponent, component)

\* The component prompt of cmvc.create resolves; the handler runs on to the
\* await of execAsync.
CreateResolve(h, component) ==
    /\ h \in Suspended /\ h.id = "create" /\ h.pc = "input"
    /\ UNCHANGED config
    /\ IF component = None \/ ~Truthy(component[1])
       THEN /\ handlers' = Resume(h)
            /\ UNCHANGED workspaceState
            /\ Effects(Call(h.id, "input", h.path, component, config, FALSE),
                       << >>, << Error(MsgNoComponent) >>, << >>, << >>)
       ELSE /\ handlers' = Replace(h, Handler(h.id, "exec", h.path, ""))
            /\ workspaceState' = RememberComponent(workspaceState, component[1])
            /\ Effects(Call(h.id, "input", h.path, component, config, TRUE),
                       << CreateCommand(h.path, component[1], GetConfig(config)) >>,
                       << >>, << >>, << >>)

\* The extension host restarts: the suspended handlers are gone, activate
\* constructs a new CMVCService, which loads the configuration.  The step
\* keeps the step before it as its input.
Activate ==
    /\ config' = LoadConfig(workspaceState)
    /\ handlers' = NoHandlers
    /\ UNCHANGED workspaceState
    /\ Effects(Call("activate", "load", None,
                    IF call.id = "activate" THEN None ELSE Some(call),
                    config, FALSE),
               << >>, << >>, << >>, << >>)

(***************************************************************************)
(* The configuration tree and the callers of getConfig                     *)
(***************************************************************************)
\* class ConfigItem: its label and the command a click runs.
ConfigItem(label, value, command) ==
    [ label |-> label \o ": " \o (IF Truthy(value) THEN value ELSE "Not set"),
      command |-> command ]

\* CMVCConfigProvider.getChildren(element): element is undefined (atRoot) or
\* a ConfigItem.
ConfigChildren(atRoot, cfg) ==
    IF atRoot
    THEN LET c == GetConfig(cfg)
         IN  << ConfigItem("Family", c.family, "cmvc.setFamily"),
                ConfigItem("Release", c.release, "cmvc.setRelease"),
                ConfigItem("Defect", c.defect, "cmvc.setDefect") >>
    ELSE << >>

\* The host asks the configuration view's provider for children; the step's
\* input is atRoot followed by the items returned.
ConfigGetChildren(atRoot) ==
    /\ UNCHANGED << config, workspaceState, handlers >>
    /\ Effects(Call("getChildren", "config", None,
                    << atRoot >> \o ConfigChildren(atRoot, config), config, FALSE),
               << >>, << >>, << >>, << >>)

\* An object as a caller of getConfig holds it: whether it is the service's
\* own this.config object, and its fields as the caller knows them (as they
\* were returned, then as the caller assigned them).
GetConfigReturnsOwnObject(cfg) == [ aliased |-> TRUE, fields |-> cfg ]

\* return { ...this.config }: a new object with the three fields copied.
GetConfigReturn(cfg) == [ aliased |-> FALSE, fields |-> GetConfig(cfg) ]

\* What reading the fields of a held object gives now.
Fields(object) == IF object.aliased THEN config ELSE object.fields

ConfigFields == { "family", "release", "defect" }

ValuesOf(field) ==
    CASE field = "family"  -> FamilyValues
      [] field = "release" -> ReleaseValues
      [] field = "defect"  -> DefectValues

\* A caller calls cmvcService.getConfig() and keeps the result in slot i.
GetConfigCall(i) ==
    /\ held' = [ held EXCEPT ![i] = Some(GetConfigReturn(config)) ]
    /\ UNCHANGED << config, workspaceState, handlers >>
    /\ Effects(Call("getConfig", "return", None, Some(i), config, FALSE),
               << >>, << >>, << >>, << >>)

\* A caller assigns value to a field of the object it holds in slot i.
CallerWrites(i, field, value) ==
    /\ held[i] # None
    /\ held' = [ held EXCEPT ![i] = Some([ held[i][1] EXCEPT !.fields[field] = value ]) ]
    /\ config' = IF held[i][1].aliased THEN [ config EXCEPT ![field] = value ] ELSE config
    /\ UNCHANGED << workspaceState, handlers >>
    /\ Effects(Call("write", field, None, Some(value), config, FALSE),
               << >>, << >>, << >>, << >>)

(***************************************************************************)
(* The workspace folder                                                    *)
(***************************************************************************)
\* Entry names, as character sequences.
NameGit == << ".", "g", "i", "t" >>
NameNodeModules == << "n", "o", "d", "e", "_", "m", "o", "d", "u", "l", "e", "s" >>
NameDotX == << ".", "x" >>
NameA == << "a" >>
NameUpperB == << "B" >>
Names == { NameGit, NameNodeModules, NameDotX, NameA, NameUpperB }

\* The UTF-16 code unit of each character the names use.
Code(c) ==
    CASE c = "." -> 46  [] c = "B" -> 66  [] c = "_" -> 95  [] c = "a" -> 97
      [] c = "d" -> 100 [] c = "e" -> 101 [] c = "g" -> 103
      [] c = "i" -> 105 [] c = "l" -> 108 [] c = "m" -> 109 [] c = "n" -> 110
      [] c = "o" -> 111 [] c = "s" -> 115 [] c = "t" -> 116 [] c = "u" -> 117
      [] c = "x" -> 120

\* A path is the sequence of names from the workspace folder down; the
\* workspace folder itself is the empty path.  fs maps each existing path to
\* its kind.  The order in which readdir returns a directory's entries is
\* the filesystem's choice at each call: a listing takes as input an
\* enumeration of the existing paths, and readdir returns the entries of a
\* directory in the order of that enumeration.
Root == << >>
Dir == [ isDir |-> TRUE ]
File == [ isDir |-> FALSE ]
EmptyFs == [ p \in { Root } |-> Dir ]

Parent(p) == SubSeq(p, 1, Len(p) - 1)
Last(p) == p[Len(p)]
Entries == DOMAIN fs \ { Root }
Children(dirPath) == { p \in Entries : Parent(p) = dirPath }

RECURSIVE Enumerations(_)
Enumerations(S) ==
    IF S = { } THEN { << >> }
    ELSE UNION { { << x >> \o e : e \in Enumerations(S \ { x }) } : x \in S }

Orders == Enumerations(Entries)

\* The value of fs.readdirSync(dirPath) when it does not throw.
Readdir(dirPath, ord) ==
    LET sel == SelectSeq(ord, LAMBDA p : Parent(p) = dirPath)
    IN  [ i \in 1..Len(sel) |-> Last(sel[i]) ]

\* What a filesystem call of a listing can run into: nothing, readdir of one
\* directory failing (permission denied) or stat of one entry failing (the
\* entry was deleted after readdir returned it).
NoFault == [ op |-> "none", path |-> Root ]
ReaddirFault(p) == [ op |-> "readdir", path |-> p ]
StatFault(p) == [ op |-> "stat", path |-> p ]

\* The faults a listing of the directories dirs can meet.
Faults(dirs) ==
    { NoFault }
        \cup { ReaddirFault(p) : p \in { q \in dirs \cap DOMAIN fs : fs[q].isDir } }
        \cup { StatFault(p) : p \in { q \in Entries : Parent(q) \in dirs } }

\* fs.readdirSync(dirPath) throws
ReaddirThrows(dirPath, fault) ==
    \/ dirPath \notin DOMAIN fs
    \/ ~fs[dirPath].isDir
    \/ fault = ReaddirFault(dirPath)

\* fs.statSync(fullPath) throws
StatThrows(fullPath, fault) ==
    \/ fullPath \notin DOMAIN fs
    \/ fault = StatFault(fullPath)

(***************************************************************************)
(* Tree items and the two listings                                         *)
(***************************************************************************)
FolderItem(label, fullPath) ==
    [ type |-> "folder", label |-> label, fullPath |-> fullPath, tooltip |-> None ]
FileItem(label, fullPath, relativePath) ==
    [ type |-> "file", label |-> label, fullPath |-> fullPath,
      tooltip |-> Some(relativePath) ]

\* file.startsWith('.')
StartsWithDot(file) == file # << >> /\ file[1] = "."

SkippedDirectoryNoDotTest(file) == file = NameNodeModules \/ file = NameGit

\* The negation of the test both listings apply to a directory entry:
\* file !== 'node_modules' && file !== '.git' && !file.startsWith('.')
SkippedDirectory(file) ==
    file = NameNodeModules \/ file = NameGit \/ StartsWithDot(file)

\* The order of Array.prototype.sort() without a comparator on strings:
\* by UTF-16 code units, a proper prefix first.
RECURSIVE StrLess(_, _)
StrLess(a, b) ==
    IF b = << >> THEN FALSE
    ELSE IF a = << >> THEN TRUE
    ELSE IF Code(a[1]) < Code(b[1]) THEN TRUE
    ELSE IF Code(a[1]) > Code(b[1]) THEN FALSE
    ELSE StrLess(Tail(a), Tail(b))

RECURSIVE SortInsert(_, _)
SortInsert(x, s) ==
    IF s = << >> THEN << x >>
    ELSE IF StrLess(x, Head(s)) THEN << x >> \o s
    ELSE << Head(s) >> \o SortInsert(x, Tail(s))

RECURSIVE Sort(_)
Sort(s) == IF s = << >> THEN << >> ELSE SortInsert(Head(s), Sort(Tail(s)))

\* path.relative(workspaceFolder, fullPath)
Relative(fullPath) == fullPath

\* CMVCFilesProvider.getDirectoryContents(dirPath, items) on an empty items:
\* the items it leaves there.
GetDirectoryContents(dirPath, fault, ord) ==
    IF ReaddirThrows(dirPath, fault) THEN << >>
    ELSE
    LET files == Readdir(dirPath, ord)
        full(file) == Append(dirPath, file)
    IN  IF \E i \in 1..Len(files) : StatThrows(full(files[i]), fault) THEN << >>
        ELSE
        LET directories ==
                Sort(SelectSeq(files,
                    LAMBDA f : fs[full(f)].isDir /\ ~SkippedDirectory(f)))
            filesList == Sort(SelectSeq(files, LAMBDA f : ~fs[full(f)].isDir))
            folderItems == [ i \in 1..Len(directories) |->
                               FolderItem(directories[i], full(directories[i])) ]
            fileItems == [ i \in 1..Len(filesList) |->
                             FileItem(filesList[i], full(filesList[i]),
                                      Relative(full(filesList[i]))) ]
        IN  \* workspaceFolders![0] throws with no workspace folder, once the
            \* folder items are pushed
            IF ~workspaceOpen /\ filesList # << >>
            THEN folderItems
            ELSE folderItems \o fileItems

GetChildrenOfFileToo(element, fault, ord) ==
    IF element = None
    THEN IF ~workspaceOpen THEN << >> ELSE GetDirectoryContents(Root, fault, ord)
    ELSE IF element[1].type = "folder"
    THEN GetDirectoryContents(element[1].fullPath, fault, ord)
    ELSE GetDirectoryContents(Parent(element[1].fullPath), fault, ord)

\* CMVCFilesProvider.getChildren(element)
GetChildren(element, fault, ord) ==
    IF element = None
    THEN IF ~workspaceOpen THEN << >> ELSE GetDirectoryContents(Root, fault, ord)
    ELSE IF element[1].type = "folder"
    THEN GetDirectoryContents(element[1].fullPath, fault, ord)
    ELSE << >>

\* CMVCExplorerProvider.getFilesRecursively(dirPath, items, rootPath): the
\* items after the call.  EagerLoop is its for loop over the entries left.
RECURSIVE GetFilesRecursively(_, _, _, _)
RECURSIVE EagerLoop(_, _, _, _, _)
GetFilesRecursivelyDropping(dirPath, its, fault, ord) ==
    IF ReaddirThrows(dirPath, fault) THEN << >>
    ELSE EagerLoop(dirPath, Readdir(dirPath, ord), its, fault, ord)

GetFilesRecursively(dirPath, its, fault, ord) ==
    IF ReaddirThrows(dirPath, fault) THEN its
    ELSE EagerLoop(dirPath, Readdir(dirPath, ord), its, fault, ord)

EagerLoop(dirPath, files, its, fault, ord) ==
    IF files = << >> THEN its
    ELSE
    LET file == Head(files)
        fullPath == Append(dirPath, file)
    IN  IF StatThrows(fullPath, fault) THEN its
        ELSE IF fs[fullPath].isDir
        THEN IF ~SkippedDirectory(file)
             THEN EagerLoop(dirPath, Tail(files),
                      GetFilesRecursively(fullPath,
                          Append(its, FolderItem(file, fullPath)), fault, ord),
                      fault, ord)
             ELSE EagerLoop(dirPath, Tail(files), its, fault, ord)
        ELSE EagerLoop(dirPath, Tail(files),
                 Append(its, FileItem(file, fullPath, Relative(fullPath))),
                 fault, ord)

\* CMVCExplorerProvider.getFiles()
GetFiles(fault, ord) ==
    IF ~workspaceOpen THEN << >> ELSE GetFilesRecursively(Root, << >>, fault, ord)

\* What the last step on the tree was: the operation, the path it was on
\* (for a listing, the directory listed, if any), the fault it ran into and
\* what readdir returned for that directory.
Listed(op, dir, fault, entries) ==
    [ op |-> op, dir |-> dir, fault |-> fault, entries |-> entries ]

\* The change events the watcher's callbacks fire for one filesystem event.
WatcherFires == IF watcher THEN << "cmvcFiles" >> ELSE << >>

\* An entry is created in a directory of the workspace folder.
FsCreate(parent, name, isDir) ==
    /\ workspaceOpen
    /\ Cardinality(Entries) < MaxNodes
    /\ parent \in DOMAIN fs /\ fs[parent].isDir
    /\ Append(parent, name) \notin DOMAIN fs
    /\ fs' = [ p \in DOMAIN fs \cup { Append(parent, name) } |->
                 IF p = Append(parent, name)
                 THEN (IF isDir THEN Dir ELSE File)
                 ELSE fs[p] ]
    /\ items' = << >>
    /\ listed' = Listed("create", Some(Append(parent, name)), NoFault, << >>)
    /\ refreshed' = WatcherFires
    /\ UNCHANGED << workspaceOpen, watcher >>

\* A file or an empty directory is deleted.
FsDelete(path) ==
    /\ path \in Entries /\ Children(path) = { }
    /\ fs' = [ p \in DOMAIN fs \ { path } |-> fs[p] ]
    /\ items' = << >>
    /\ listed' = Listed("delete", Some(path), NoFault, << >>)
    /\ refreshed' = WatcherFires
    /\ UNCHANGED << workspaceOpen, watcher >>

FsChangeUnwatched(path) ==
    /\ path \in Entries /\ ~fs[path].isDir
    /\ items' = << >>
    /\ listed' = [ op |-> "change", dir |-> Some(path), fault |-> NoFault, entries |-> << >> ]
    /\ refreshed' = << >>
    /\ UNCHANGED << workspaceOpen, watcher, fs >>

\* A file's content changes.
FsChange(path) ==
    /\ path \in Entries /\ ~fs[path].isDir
    /\ items' = << >>
    /\ listed' = Listed("change", Some(path), NoFault, << >>)
    /\ refreshed' = WatcherFires
    /\ UNCHANGED << workspaceOpen, watcher, fs >>

\* The items the host may hold from earlier listings and pass back to
\* getChildren: for each existing entry a folder item (where a listing could
\* have made one) and a file item, whatever the entry is by now, and folder
\* items of top-level directories that are gone.
HeldItems ==
    { FolderItem(Last(p), p) : p \in { q \in Entries : ~SkippedDirectory(Last(q)) } }
        \cup { FileItem(Last(p), p, Relative(p)) : p \in Entries }
        \cup { FolderItem(n, << n >>) :
                 n \in { m \in Names : << m >> \notin DOMAIN fs /\ ~SkippedDirectory(m) } }

ListedDir(element) ==
    IF element = None THEN (IF workspaceOpen THEN Some(Root) ELSE None)
    ELSE IF element[1].type = "folder" THEN Some(element[1].fullPath)
    ELSE None

\* The host asks the files view's provider for the children of the root or
\* of an item it holds.
ListLazy(element, fault, ord) ==
    /\ items' = GetChildren(element, fault, ord)
    /\ listed' = Listed("lazy", ListedDir(element), fault,
                        IF ListedDir(element) = None THEN << >>
                        ELSE Readdir(ListedDir(element)[1], ord))
    /\ refreshed' = << >>
    /\ UNCHANGED << workspaceOpen, watcher, fs >>

\* The host asks the single-tree provider for the children of its Files
\* section.
ListEager(fault, ord) ==
    /\ items' = GetFiles(fault, ord)
    /\ listed' = Listed("eager", IF workspaceOpen THEN Some(Root) ELSE None, fault,
                        IF workspaceOpen THEN Readdir(Root, ord) ELSE << >>)
    /\ refreshed' = << >>
    /\ UNCHANGED << workspaceOpen, watcher, fs >>

\* deactivate(): cmvcFilesProvider.dispose()
Deactivate ==
    /\ watcher
    /\ watcher' = FALSE
    /\ items' = << >>
    /\ listed' = Listed("deactivate", None, NoFault, << >>)
    /\ refreshed' = << >>
    /\ UNCHANGED << workspaceOpen, fs >>

\* activate(): new CMVCFilesProvider, setupFileSystemWatcher()
ActivateFiles ==
    /\ ~watcher
    /\ watcher' = workspaceOpen
    /\ items' = << >>
    /\ listed' = Listed("activate", None, NoFault, << >>)
    /\ refreshed' = << >>
    /\ UNCHANGED << workspaceOpen, fs >>

InitService ==
    /\ workspaceState = << >>
    /\ config = LoadConfig(workspaceState)
    /\ handlers = NoHandlers
    /\ call = NoCall
    /\ spawned = << >>
    /\ shown = << >>
    /\ opened = << >>
    /\ refreshed = << >>

InitHeld == held = [ i \in 1..MaxHeld |-> None ]

InitTree ==
    /\ InitHeld
    /\ watcher = workspaceOpen
    /\ fs = EmptyFs
    /\ items = << >>
    /\ listed = Listed("activate", None, NoFault, << >>)

Init == InitService /\ workspaceOpen = TRUE /\ InitTree

InitFiles == InitService /\ workspaceOpen \in BOOLEAN /\ InitTree

Next ==
    \/ \E id \in SetIds : SetStart(id) /\ UNCHANGED << treeVars, held >>
    \/ \E h \in { x \in Suspended : x.id \in SetIds } :
           \E v \in { None } \cup { Some(x) : x \in FieldValues(h.id) } :
               SetResolve(h, v) /\ UNCHANGED << treeVars, held >>
    \/ \E id \in CheckinIds, item \in ItemArgs : Checkin(id, item) /\ UNCHANGED << treeVars, held >>
    \/ \E id \in CheckoutIds, item \in ItemArgs : Checkout(id, item) /\ UNCHANGED << treeVars, held >>
    \/ \E id \in ViewIds, item \in ItemArgs : View(id, item) /\ UNCHANGED << treeVars, held >>
    \/ \E h \in Suspended, o \in Outcomes : ExecDone(h, o) /\ UNCHANGED << treeVars, held >>
    \/ \E h \in Suspended, ok \in BOOLEAN : OpenDone(h, ok) /\ UNCHANGED << treeVars, held >>
    \/ \E h \in Suspended, ok \in BOOLEAN : ShowDone(h, ok) /\ UNCHANGED << treeVars, held >>
    \/ \E item \in ItemArgs : CreateStart(item) /\ UNCHANGED << treeVars, held >>
    \/ \E h \in Suspended, c \in { None } \cup { Some(x) : x \in ComponentValues } :
           CreateResolve(h, c) /\ UNCHANGED << treeVars, held >>
    \/ Activate /\ UNCHANGED << treeVars, held >>
    \/ \E atRoot \in BOOLEAN : ConfigGetChildren(atRoot) /\ UNCHANGED << treeVars, held >>

Spec == Init /\ [][Next]_vars

\* The service alone with callers of getConfig: the setters, getConfig and
\* what a caller does with the object it got.
NextConfig ==
    \/ \E id \in SetIds : SetStart(id) /\ UNCHANGED << treeVars, held >>
    \/ \E h \in { x \in Suspended : x.id \in SetIds } :
           \E v \in { None } \cup { Some(x) : x \in FieldValues(h.id) } :
               SetResolve(h, v) /\ UNCHANGED << treeVars, held >>
    \/ \E i \in 1..MaxHeld : GetConfigCall(i) /\ UNCHANGED treeVars
    \/ \E i \in 1..MaxHeld, field \in ConfigFields :
           \E v \in ValuesOf(field) : CallerWrites(i, field, v) /\ UNCHANGED treeVars

SpecConfig == Init /\ [][NextConfig]_vars

NextFiles ==
    \/ \E parent \in DOMAIN fs, name \in Names, isDir \in BOOLEAN :
           FsCreate(parent, name, isDir) /\ UNCHANGED << serviceVars, held >>
    \/ \E path \in Entries : FsDelete(path) /\ UNCHANGED << serviceVars, held >>
    \/ \E path \in Entries : FsChange(path) /\ UNCHANGED << serviceVars, held >>
    \/ \E element \in { None } \cup { Some(x) : x \in HeldItems } :
           \E fault \in Faults({ ListedDir(element)[i] : i \in 1..Len(ListedDir(element)) }),
              ord \in Orders :
               ListLazy(element, fault, ord) /\ UNCHANGED << serviceVars, held >>
    \/ \E fault \in Faults(DOMAIN fs), ord \in Orders :
           ListEager(fault, ord) /\ UNCHANGED << serviceVars, held >>
    \/ Deactivate /\ UNCHANGED << serviceVars, held >>
    \/ ActivateFiles /\ UNCHANGED << serviceVars, held >>

SpecFiles == InitFiles /\ [][NextFiles]_vars

(***************************************************************************)
(* Properties of the service, under Spec                                   *)
(***************************************************************************)
StartedOnItem(ids) == call.id \in ids /\ call.step = "start" /\ call.arg # None

\* C1: a checkin or checkout started on a file while family, release or
\* defect is the empty string hands no command to the external process: it
\* shows the one error 'Please set Family, Release, and Defect values first.'
\* and returns, leaving nothing suspended.
C1_EmptyFieldBlocksCheckinCheckout ==
    ( /\ StartedOnItem({ "checkin", "checkout" })
      /\ (call.pre.family = "" \/ call.pre.release = "" \/ call.pre.defect = "") )
    => /\ spawned = << >>
       /\ shown = << [ level |-> "error",
                       text |-> "Please set Family, Release, and Defect values first." ] >>
       /\ opened = << >>
       /\ ~call.pending

\* A checkin refused for the missing defect alone, after the setters have
\* stored family and release.
C1_Witness ==
    /\ StartedOnItem({ "checkin" })
    /\ call.pre = [ family |-> "F1", release |-> "R1", defect |-> "" ]
    /\ spawned = << >>
    /\ Len(shown) = 1

\* C2: a view started on a file while family or release is the empty string
\* hands no command to the external process and opens no document: it shows
\* one error and returns.  Defect plays no part: with family and release
\* set, a view started with an empty defect does hand its command to the
\* process.
C2_ViewNeedsFamilyAndRelease ==
    /\ ( StartedOnItem({ "view" }) /\ (call.pre.family = "" \/ call.pre.release = "") )
       => /\ spawned = << >>
          /\ opened = << >>
          /\ Len(shown) = 1 /\ shown[1].level = "error"
          /\ ~call.pending
    /\ ( StartedOnItem({ "view" }) /\ call.pre.family # "" /\ call.pre.release # "" )
       => /\ Len(spawned) = 1
          /\ shown = << >>
          /\ call.pending

\* A view that ran its command with the defect empty.
C2_Witness ==
    /\ StartedOnItem({ "view" })
    /\ call.pre = [ family |-> "F1", release |-> "R1", defect |-> "" ]
    /\ Len(spawned) = 1

\* The configuration a reload must give after the setter step prev: the
\* field set holds the value typed, the other two what they held before.
C3_Expected(prev) ==
    CASE prev.id = "cmvc.setFamily" ->
             [ family |-> prev.arg[1], release |-> prev.pre.release,
               defect |-> prev.pre.defect ]
      [] prev.id = "cmvc.setRelease" ->
             [ family |-> prev.pre.family, release |-> prev.arg[1],
               defect |-> prev.pre.defect ]
      [] prev.id = "cmvc.setDefect" ->
             [ family |-> prev.pre.family, release |-> prev.pre.release,
               defect |-> prev.arg[1] ]

\* C3: persistence round trip.  When a setter has stored the value v in its
\* field and the extension is then activated anew over the same
\* workspaceState, the loaded configuration holds v in that field and, in
\* the other two fields, the values they had before the setter ran.
C3_SetThenReload ==
    ( /\ call.id = "activate"
      /\ call.arg # None
      /\ call.arg[1].id \in SetIds /\ call.arg[1].step = "input"
      /\ call.arg[1].arg # None )
    => config = C3_Expected(call.arg[1])

\* A reload right after setRelease("R1"), with family and defect set before.
C3_Witness ==
    /\ call.id = "activate"
    /\ call.arg # None
    /\ call.arg[1].id = "cmvc.setRelease" /\ call.arg[1].step = "input"
    /\ call.arg[1].arg = << "R1" >>
    /\ call.arg[1].pre = [ family |-> "F1", release |-> "", defect |-> "D1" ]
    /\ config = [ family |-> "F1", release |-> "R1", defect |-> "D1" ]

\* The text of the two file paths and of their base names.
C7_PathText(p) == IF p = PathWsATxt THEN "/ws/a.txt" ELSE "/ws/d/b"
C7_BaseText(p) == IF p = PathWsATxt THEN "a.txt" ELSE "b"

\* C7: with family f, release r and defect d all non-empty, checkin(p) hands
\* the process exactly  File -checkin "p" -defect "d" -release "r" -family "f",
\* checkout the same with -checkout, and view (which needs f and r only)
\* File -view "p" -release "r" -family "f"; and a checkin whose process ends
\* with empty stderr shows the information message
\* 'Successfully checked in: <basename of p>'.
C7_CommandStrings ==
    LET p == C7_PathText(call.path)
        f == call.pre.family
        r == call.pre.release
        d == call.pre.defect
        q == "\""
        tail == " -release " \o q \o r \o q \o " -family " \o q \o f \o q
        withDefect == " -defect " \o q \o d \o q \o tail
    IN  /\ ( StartedOnItem({ "checkin" }) /\ f # "" /\ r # "" /\ d # "" )
           => spawned = << "File -checkin " \o q \o p \o q \o withDefect >>
        /\ ( StartedOnItem({ "checkout" }) /\ f # "" /\ r # "" /\ d # "" )
           => spawned = << "File -checkout " \o q \o p \o q \o withDefect >>
        /\ ( StartedOnItem({ "view" }) /\ f # "" /\ r # "" )
           => spawned = << "File -view " \o q \o p \o q \o tail >>
        /\ ( /\ call.id = "checkin" /\ call.step = "exec"
             /\ ~call.arg[1].rejected /\ call.arg[1].stderr = "" )
           => shown = << [ level |-> "info",
                           text |-> "Successfully checked in: "
                                        \o C7_BaseText(call.path) ] >>

\* The example of the specification: the command issued for /ws/a.txt ...
C7_WitnessCommand ==
    /\ StartedOnItem({ "checkin" })
    /\ spawned = << "File -checkin \"/ws/a.txt\" -defect \"D1\" -release \"R1\" -family \"F1\"" >>

\* ... and the message once its process has ended with empty stderr.
C7_Witness ==
    /\ call.id = "checkin" /\ call.step = "exec" /\ call.path = PathWsATxt
    /\ call.pre = [ family |-> "F1", release |-> "R1", defect |-> "D1" ]
    /\ shown = << [ level |-> "info", text |-> "Successfully checked in: a.txt" ] >>

C8_Word(id) ==
    CASE id = "checkin" -> "Checkin" [] id = "checkout" -> "Checkout"
      [] id = "view" -> "View" [] id = "create" -> "Create"

C8_Success(id, p) ==
    CASE id = "checkin"  -> "Successfully checked in: " \o C7_BaseText(p)
      [] id = "checkout" -> "Successfully checked out: " \o C7_BaseText(p)
      [] id = "create"   -> "Successfully created: " \o C7_PathText(p)

\* C8, as stated: an invoked operation is reported as a success exactly when
\* its process settled without a process-level error and with empty stderr.
\* For a view this says that once the process has succeeded the view shows
\* no failure: not when the process settles, and not at the later steps that
\* open and show the document.
C8_SuccessIffProcessSucceeded ==
    /\ call.step = "exec"
       => ( (\E i \in 1..Len(shown) : shown[i].level = "error")
              <=> (call.arg[1].rejected \/ call.arg[1].stderr # "") )
    /\ (call.id = "view" /\ call.step \in { "open", "show" }) => shown = << >>

\* C8, amended: when the process of an invoked operation settles, the
\* handler takes its failure branch exactly when the process was rejected or
\* its stderr is non-empty, and then shows the one error '<Op> failed: ...'
\* carrying the stderr text (for a resolved process, whatever its stdout),
\* opens nothing and ends.  Otherwise checkin, checkout and create show
\* their success message, which does not depend on stdout, and view asks
\* the host for a new document holding exactly stdout; the document exists
\* once the host has opened it, and a view whose document the host fails to
\* open or to show reports 'View failed: ...' as well.  A document is
\* opened by no other step.
C8_OutcomeClassification ==
    /\ ( call.step = "exec" /\ (call.arg[1].rejected \/ call.arg[1].stderr # "") )
       => /\ shown = << [ level |-> "error",
                          text |-> C8_Word(call.id) \o " failed: "
                                     \o (IF call.arg[1].rejected
                                         THEN "Error: Command failed"
                                         ELSE call.arg[1].stderr) ] >>
          /\ opened = << >>
          /\ ~call.pending
    /\ ( /\ call.step = "exec" /\ ~call.arg[1].rejected /\ call.arg[1].stderr = ""
         /\ call.id # "view" )
       => /\ shown = << [ level |-> "info", text |-> C8_Success(call.id, call.path) ] >>
          /\ opened = << >>
          /\ ~call.pending
    /\ ( /\ call.step = "exec" /\ ~call.arg[1].rejected /\ call.arg[1].stderr = ""
         /\ call.id = "view" )
       => /\ shown = << >>
          /\ call.pending
          /\ \E h \in Suspended :
                 /\ h.id = "view" /\ h.pc = "open" /\ h.path = call.path
                 /\ h.out = call.arg[1].stdout
    /\ ( call.id = "view" /\ call.step = "open" )
       => IF call.arg[1].ok
          THEN opened = << call.arg[1].content >> /\ shown = << >>
          ELSE /\ opened = << >>
               /\ shown = << [ level |-> "error", text |-> "View failed: Error: host" ] >>
    /\ ( call.id = "view" /\ call.step = "show" /\ ~call.arg[1] )
       => shown = << [ level |-> "error", text |-> "View failed: Error: host" ] >>
    /\ opened # << >> => (call.id = "view" /\ call.step = "open")

\* A checkin that failed on its stderr although stdout was not empty.
C8_WitnessStderr ==
    /\ call.id = "checkin" /\ call.step = "exec"
    /\ call.arg[1] = [ rejected |-> FALSE, stdout |-> "out", stderr |-> "err" ]
    /\ shown = << [ level |-> "error", text |-> "Checkin failed: err" ] >>

\* A view whose process succeeded with stdout "out" and whose document,
\* holding that text, has been opened.
C8_Witness ==
    /\ call.id = "view" /\ call.step = "open"
    /\ opened = << "out" >>

\* C9, as stated: the only keys written to workspaceState are cmvc.family,
\* cmvc.release and cmvc.defect.
C9_OnlyThreeKeys ==
    DOMAIN workspaceState \subseteq { "cmvc.family", "cmvc.release", "cmvc.defect" }

\* C9, amended: the keys written to workspaceState are among cmvc.family,
\* cmvc.release, cmvc.defect and cmvc.lastComponent; the last is written by
\* cmvc.create alone, with the non-empty component typed at its prompt.
C9_OnlyFourKeys ==
    /\ DOMAIN workspaceState
           \subseteq { "cmvc.family", "cmvc.release", "cmvc.defect", "cmvc.lastComponent" }
    /\ "cmvc.lastComponent" \in DOMAIN workspaceState
           => workspaceState["cmvc.lastComponent"] # ""
    /\ ( call.id = "create" /\ call.step = "input" /\ call.pending )
           => /\ "cmvc.lastComponent" \in DOMAIN workspaceState
              /\ workspaceState["cmvc.lastComponent"] = call.arg[1]

\* All four keys are stored.
C9_Witness ==
    DOMAIN workspaceState
        = { "cmvc.family", "cmvc.release", "cmvc.defect", "cmvc.lastComponent" }

\* C10: whenever a registered command hands a command to the external
\* process, family and release are non-empty, and so is defect when the
\* command is checkin, checkout or create.
C10_ConfigCheckedBeforeEveryRun ==
    spawned # << >>
    => /\ call.pre.family # "" /\ call.pre.release # ""
       /\ call.id \in { "checkin", "checkout", "create" } => call.pre.defect # ""

\* The same for checkin, checkout and view alone, which test the
\* configuration in the step that builds the command.
GuardedCommandsChecked ==
    ( spawned # << >> /\ call.id \in { "checkin", "checkout", "view" } )
    => /\ call.pre.family # "" /\ call.pre.release # ""
       /\ call.id \in { "checkin", "checkout" } => call.pre.defect # ""

(***************************************************************************)
(* Properties of the listings, under SpecFiles                             *)
(***************************************************************************)
IsListing == listed.op \in { "lazy", "eager" }

\* The last step listed the existing directory d and met no fault.
ListedCleanly(d) ==
    /\ IsListing /\ listed.dir = << d >> /\ listed.fault = NoFault
    /\ d \in DOMAIN fs /\ fs[d].isDir

\* A name the listing is said to exclude.
C4_ExcludedName(n) ==
    \/ n = << ".", "g", "i", "t" >>
    \/ n = << "n", "o", "d", "e", "_", "m", "o", "d", "u", "l", "e", "s" >>
    \/ (n # << >> /\ n[1] = ".")

HasItem(type, p) ==
    \E i \in 1..Len(items) :
        items[i].type = type /\ items[i].fullPath = p /\ items[i].label = Last(p)

\* C4, as stated: no node named .git, node_modules or with a name starting
\* with "." is in the result of a listing, be the entry a directory or a
\* regular file.
C4_NoExcludedNameListed ==
    IsListing => \A i \in 1..Len(items) : ~C4_ExcludedName(items[i].label)

\* C4, amended: the exclusion is of directories.  No folder node named .git,
\* node_modules or with a name starting with "." is in the result of a
\* listing; every directory entry with another name is, and so is every
\* regular file of the listed directory, whatever its name, when the
\* listing meets no read error.
C4_ExcludedDirectoriesOnly ==
    /\ IsListing
       => \A i \in 1..Len(items) :
              items[i].type = "folder" => ~C4_ExcludedName(items[i].label)
    /\ \A d \in DOMAIN fs :
           ListedCleanly(d)
           => \A p \in Children(d) :
                  IF fs[p].isDir
                  THEN HasItem("folder", p) <=> ~C4_ExcludedName(Last(p))
                  ELSE HasItem("file", p)

\* A lazy listing of a directory that holds a directory and a regular file,
\* both with excluded names: the file is listed, the directory is not.
C4_Witness ==
    /\ listed.op = "lazy"
    /\ \E d \in DOMAIN fs :
           /\ ListedCleanly(d)
           /\ \E p, q \in Children(d) :
                  /\ fs[p].isDir /\ C4_ExcludedName(Last(p)) /\ ~HasItem("folder", p)
                  /\ ~fs[q].isDir /\ C4_ExcludedName(Last(q)) /\ HasItem("file", q)

\* The same for the eager listing.
C4_WitnessEager ==
    /\ listed.op = "eager"
    /\ \E p, q \in Children(Root) :
           /\ ListedCleanly(Root)
           /\ fs[p].isDir /\ C4_ExcludedName(Last(p)) /\ ~HasItem("folder", p)
           /\ ~fs[q].isDir /\ C4_ExcludedName(Last(q)) /\ HasItem("file", q)

\* Among the nodes of one directory, folders come before files and each
\* group is in ascending order of name.
NodesOrdered ==
    \A i, j \in 1..Len(items) :
        ( i < j /\ Parent(items[i].fullPath) = Parent(items[j].fullPath) )
        => /\ ~(items[i].type = "file" /\ items[j].type = "folder")
           /\ items[i].type = items[j].type => StrLess(items[i].label, items[j].label)

\* C5: in the result of a directory listing, all folder nodes of a directory
\* precede all its file nodes, and the folder nodes and the file nodes are
\* each in ascending lexicographic order of name, whatever the order in
\* which readdir returned the entries.
C5_FoldersFirstEachSorted == IsListing => NodesOrdered

\* The lazy listing alone does order its nodes so.
LazyFoldersFirstEachSorted == listed.op = "lazy" => NodesOrdered

\* A lazy listing whose result is not in the order readdir returned.
LazySortedWitness ==
    /\ listed.op = "lazy" /\ Len(items) = 2
    /\ listed.entries = << items[2].label, items[1].label >>

\* The last listing met a fault while reading the directory d.
FaultIn(d) ==
    \/ listed.fault = ReaddirFault(d)
    \/ (listed.fault.op = "stat" /\ Parent(listed.fault.path) = d)

\* C6: a read error while listing a directory (readdir of the directory or
\* stat of one of its entries fails) leaves no node of that directory in the
\* result, the entries read before the failure included; in the lazy and in
\* the eager listing.
C6_ReadErrorYieldsNoNodes ==
    IsListing
    => \A d \in DOMAIN fs :
           FaultIn(d) => \A i \in 1..Len(items) : Parent(items[i].fullPath) # d

\* The lazy listing alone does end empty on every read error.
LazyReadErrorYieldsNoNodes ==
    ( listed.op = "lazy" /\ listed.fault # NoFault ) => items = << >>

\* A lazy listing that ended empty on a failed stat of the second of two
\* entries.
LazyReadErrorWitness ==
    /\ listed.op = "lazy" /\ listed.fault.op = "stat"
    /\ Len(listed.entries) = 2 /\ listed.fault.path = << listed.entries[2] >>
    /\ items = << >>

(***************************************************************************)
(* Further properties of the service, under Spec                           *)
(***************************************************************************)
\* A setter has stored the value typed at its prompt.
SetterStored == call.id \in SetIds /\ call.step = "input" /\ call.arg # None

\* C11: persisted after every mutation.  When a setter has returned, the
\* three keys cmvc.family, cmvc.release and cmvc.defect are all stored and
\* hold the three fields of the configuration in memory; and in every state
\* the persisted configuration, read as loadConfig reads it, is the
\* configuration in memory.
C11_PersistedAfterEveryMutation ==
    /\ SetterStored
       => /\ { "cmvc.family", "cmvc.release", "cmvc.defect" } \subseteq DOMAIN workspaceState
          /\ workspaceState["cmvc.family"] = config.family
          /\ workspaceState["cmvc.release"] = config.release
          /\ workspaceState["cmvc.defect"] = config.defect
    /\ config.family = (IF "cmvc.family" \in DOMAIN workspaceState
                        THEN workspaceState["cmvc.family"] ELSE "")
    /\ config.release = (IF "cmvc.release" \in DOMAIN workspaceState
                         THEN workspaceState["cmvc.release"] ELSE "")
    /\ config.defect = (IF "cmvc.defect" \in DOMAIN workspaceState
                        THEN workspaceState["cmvc.defect"] ELSE "")

\* setDefect("D1") has returned, after setters that stored family and
\* release: the three stored values are those in memory.
C11_Witness ==
    /\ call.id = "cmvc.setDefect" /\ call.step = "input" /\ call.arg = << "D1" >>
    /\ config = [ family |-> "F1", release |-> "R1", defect |-> "D1" ]
    /\ workspaceState["cmvc.family"] = "F1"
    /\ workspaceState["cmvc.release"] = "R1"
    /\ workspaceState["cmvc.defect"] = "D1"

\* C12: each setter overwrites exactly one field.  After setFamily(v) the
\* configuration holds v as family, and release and defect as they were
\* before; likewise for setRelease and setDefect.  Every other step (a
\* dismissed prompt, the start and the completion of checkin, checkout, view
\* and create, getConfig in the configuration tree's getChildren, a reload)
\* leaves all three fields as they were before it.
C12_SettersOverwriteOneField ==
    /\ ( SetterStored /\ call.id = "cmvc.setFamily" )
       => config = [ family |-> call.arg[1], release |-> call.pre.release,
                     defect |-> call.pre.defect ]
    /\ ( SetterStored /\ call.id = "cmvc.setRelease" )
       => config = [ family |-> call.pre.family, release |-> call.arg[1],
                     defect |-> call.pre.defect ]
    /\ ( SetterStored /\ call.id = "cmvc.setDefect" )
       => config = [ family |-> call.pre.family, release |-> call.pre.release,
                     defect |-> call.arg[1] ]
    /\ ~SetterStored => config = call.pre

\* setRelease("") has cleared the release and left family and defect, both
\* set before, as they were.
C12_Witness ==
    /\ call.id = "cmvc.setRelease" /\ call.step = "input" /\ call.arg = << "" >>
    /\ call.pre = [ family |-> "F1", release |-> "R1", defect |-> "D1" ]
    /\ config = [ family |-> "F1", release |-> "", defect |-> "D1" ]

\* The configuration tree has listed a configuration that create, started
\* before, did not change.
C12_WitnessListing ==
    /\ call.id = "getChildren" /\ call.step = "config" /\ Len(call.arg) = 4
    /\ call.arg[3].label = "Release: R1" /\ call.arg[4].label = "Defect: Not set"
    /\ \E h \in Suspended : h.id = "create" /\ h.pc = "exec"

\* The number of external processes in flight: the handlers suspended at
\* the await of execAsync.
InFlight ==
    LET atExec == { h \in Suspended : h.pc = "exec" }
    IN  BagCardinality([ h \in atExec |-> CopiesIn(h, handlers) ])

\* A process has settled with a failure.
ProcessFailed ==
    call.step = "exec" /\ (call.arg[1].rejected \/ call.arg[1].stderr # "")

\* C15: no retries.  A command is handed to the external process only by
\* the step that starts checkin, checkout or view on a file and by the step
\* of create that follows its prompt, one command per such step; the step
\* that runs when a process settles, whatever the outcome, and the steps that
\* open and show a document hand over none, and a handler whose process
\* failed has ended.  So each settled process leaves one process fewer in
\* flight, and the processes in flight grow only by the commands handed
\* over.
C15_NoRetries ==
    /\ [] ( /\ Len(spawned) <= 1
            /\ spawned # << >>
               => \/ call.step = "start" /\ call.id \in { "checkin", "checkout", "view" }
                  \/ call.step = "input" /\ call.id = "create"
            /\ ProcessFailed => ~call.pending )
    /\ [][ /\ call'.step = "exec" => InFlight' = InFlight - 1
           /\ InFlight' <= InFlight + Len(spawned') ]_vars

\* A checkout whose process was rejected has ended: it has handed over no
\* further command and nothing is left in flight.
C15_Witness ==
    /\ call.id = "checkout" /\ ProcessFailed /\ call.arg[1].rejected
    /\ spawned = << >> /\ ~call.pending
    /\ InFlight = 0

\* The last step ran a handler of the kind id from an await to its end.
Ended(id) ==
    call.id = id /\ call.step \in { "exec", "open", "show" } /\ ~call.pending

OneError == Len(shown) = 1 /\ shown[1].level = "error"
OneInfo == Len(shown) = 1 /\ shown[1].level = "info"

\* The last step ended a view with its document opened and shown.
DocumentShown == call.id = "view" /\ call.step = "show" /\ call.arg = << TRUE >>

C16_WitnessShown == DocumentShown /\ Ended("view") /\ shown = << >>

\* The command of a kind for the file path p, with the fields of cfg.
C19_Command(kind, p, cfg) ==
    LET q == "\""
        tail == " -release " \o q \o cfg.release \o q
                    \o " -family " \o q \o cfg.family \o q
    IN  IF kind = "view"
        THEN "File -view " \o q \o C7_PathText(p) \o q \o tail
        ELSE "File -" \o kind \o " " \o q \o C7_PathText(p) \o q
                 \o " -defect " \o q \o cfg.defect \o q \o tail

\* The handlers of checkin, checkout, view and create that are suspended.
Running ==
    LET others == { h \in Suspended : h.id \notin SetIds }
    IN  [ h \in others |-> CopiesIn(h, handlers) ]

\* C19: a consistent configuration under interleaving.  The step that
\* starts checkin, checkout or view both tests the configuration and builds
\* the command: a command it hands to the process carries the family,
\* release and defect of the one configuration the step found, and that
\* configuration passed the step's test.  A setter that runs while processes
\* are in flight hands over no command, shows no message and leaves the
\* suspended handlers of the commands as they are; and the message of a
\* checkin or checkout whose process settles is that of its file and of the
\* outcome, whatever the configuration is by then.
C19_ConsistentSnapshot ==
    /\ [] ( /\ ( StartedOnItem({ "checkin", "checkout" }) /\ spawned # << >> )
               => /\ call.pre.family # "" /\ call.pre.release # ""
                  /\ call.pre.defect # ""
                  /\ spawned = << C19_Command(call.id, call.path, call.pre) >>
            /\ ( StartedOnItem({ "view" }) /\ spawned # << >> )
               => /\ call.pre.family # "" /\ call.pre.release # ""
                  /\ spawned = << C19_Command("view", call.path, call.pre) >>
            /\ ( call.step = "exec" /\ call.id \in { "checkin", "checkout" } )
               => shown = IF ProcessFailed
                          THEN << [ level |-> "error",
                                    text |-> C8_Word(call.id) \o " failed: "
                                               \o (IF call.arg[1].rejected
                                                   THEN "Error: Command failed"
                                                   ELSE call.arg[1].stderr) ] >>
                          ELSE << [ level |-> "info",
                                    text |-> C8_Success(call.id, call.path) ] >> )
    /\ [][ call'.id \in SetIds
           => /\ spawned' = << >> /\ shown' = << >>
              /\ Running' = Running ]_vars

\* A checkin has reported its success although the defect, set when the
\* checkin started, was cleared while its process was in flight.
C19_Witness ==
    /\ call.id = "checkin" /\ call.step = "exec" /\ call.path = PathWsATxt
    /\ call.pre = [ family |-> "F1", release |-> "R1", defect |-> "" ]
    /\ shown = << [ level |-> "info", text |-> "Successfully checked in: a.txt" ] >>

\* The field a setter command sets.
C20_Field(id) ==
    CASE id = "cmvc.setFamily"  -> "family"
      [] id = "cmvc.setRelease" -> "release"
      [] id = "cmvc.setDefect"  -> "defect"

\* C20: the outcome of a value prompt.  When the prompt of setFamily,
\* setRelease or setDefect is dismissed, the configuration and the stored
\* values stay as they are and the configuration tree is not refreshed.
\* When it returns a string, the empty string included, the field holds that
\* string, the other two fields are as before, the three stored values are
\* those of the configuration and the configuration tree is refreshed once;
\* this whatever other prompts are open, so of two prompts for one field the
\* one that resolves last decides the field.  A field cleared that way makes
\* a later checkin or checkout end at its test of the configuration.
C20_ValuePromptOutcome ==
    /\ [][ ( call'.id \in SetIds /\ call'.step = "input" )
           => IF call'.arg = None
              THEN /\ config' = config
                   /\ workspaceState' = workspaceState
                   /\ refreshed' = << >>
              ELSE /\ config' = [ config EXCEPT ![C20_Field(call'.id)] = call'.arg[1] ]
                   /\ { "cmvc.family", "cmvc.release", "cmvc.defect" }
                          \subseteq DOMAIN workspaceState'
                   /\ workspaceState'["cmvc.family"] = config'.family
                   /\ workspaceState'["cmvc.release"] = config'.release
                   /\ workspaceState'["cmvc.defect"] = config'.defect
                   /\ refreshed' = << "cmvcConfig" >> ]_vars
    /\ [] ( ( /\ StartedOnItem({ "checkin", "checkout" })
              /\ "" \in { config.family, config.release, config.defect } )
            => ( spawned = << >> /\ OneError /\ ~call.pending ) )

\* Of two prompts for the family open at once, one has returned the empty
\* string and cleared the family, "F1" before; the other is still open.
C20_Witness ==
    /\ call.id = "cmvc.setFamily" /\ call.step = "input" /\ call.arg = << "" >>
    /\ call.pre.family = "F1" /\ config.family = ""
    /\ workspaceState["cmvc.family"] = ""
    /\ refreshed = << "cmvcConfig" >>
    /\ \E h \in Suspended : h.id = "cmvc.setFamily" /\ h.pc = "input"

(***************************************************************************)
(* Properties of getConfig, under SpecConfig                               *)
(***************************************************************************)
\* C13: getConfig returns a copy.  An assignment to a field of an object
\* that getConfig returned leaves the configuration of the service and the
\* persisted values as they were; and the fields of a held object are those
\* it was returned with, or those its holder assigned since: no setter of
\* the service changes them.
C13_GetConfigReturnsCopy ==
    /\ call.id = "write"
       => /\ config = call.pre
          /\ config = [ family  |-> IF "cmvc.family" \in DOMAIN workspaceState
                                    THEN workspaceState["cmvc.family"] ELSE "",
                        release |-> IF "cmvc.release" \in DOMAIN workspaceState
                                    THEN workspaceState["cmvc.release"] ELSE "",
                        defect  |-> IF "cmvc.defect" \in DOMAIN workspaceState
                                    THEN workspaceState["cmvc.defect"] ELSE "" ]
    /\ \A i \in 1..MaxHeld :
           held[i] # None => Fields(held[i][1]) = held[i][1].fields

\* An object returned while family was "F1", whose holder then set its
\* release to "R1", is as its holder left it after setFamily("") on the
\* service, which holds no release.
C13_Witness ==
    /\ SetterStored /\ call.id = "cmvc.setFamily" /\ call.arg = << "" >>
    /\ config = [ family |-> "", release |-> "", defect |-> "" ]
    /\ held[1] # None
    /\ Fields(held[1][1]) = [ family |-> "F1", release |-> "R1", defect |-> "" ]

(***************************************************************************)
(* Further properties of the file tree, under SpecFiles                    *)
(***************************************************************************)
\* The last step was a filesystem event in the workspace folder.
FsEvent == listed.op \in { "create", "delete", "change" }

\* C14: while the extension is active with a workspace folder open (from
\* activate until deactivate disposes of the watcher), every creation,
\* deletion and change of an entry under the workspace folder fires one
\* change event of the file tree, for the whole tree.  The watcher exists
\* exactly from an activation with a workspace folder until deactivate.
C14_EveryFsEventRefreshes ==
    /\ ( FsEvent /\ watcher ) => refreshed = << "cmvcFiles" >>
    /\ ( FsEvent /\ ~watcher ) => refreshed = << >>
    /\ watcher => workspaceOpen
    /\ listed.op = "activate" => watcher = workspaceOpen
    /\ listed.op = "deactivate" => ~watcher

\* A change of a file's content has refreshed the tree.
C14_Witness ==
    /\ listed.op = "change" /\ watcher /\ workspaceOpen
    /\ refreshed = << "cmvcFiles" >>

\* A deletion after deactivate refreshes nothing.
C14_WitnessDisposed ==
    /\ listed.op = "delete" /\ ~watcher /\ refreshed = << >>

\* The entry p is one a complete listing of the workspace folder shows: it
\* exists, every directory above it is a directory that is not skipped, and
\* it is a regular file or a directory that is not skipped.
Visible(p) ==
    \A k \in 1..Len(p) :
        LET q == SubSeq(p, 1, k)
        IN  /\ q \in DOMAIN fs
            /\ fs[q].isDir => ~C4_ExcludedName(Last(q))
            /\ k < Len(p) => fs[q].isDir

\* The entry p lies below the directory d.
Below(p, d) == Len(p) > Len(d) /\ SubSeq(p, 1, Len(d)) = d

\* The last step was an eager listing during which the listing of the
\* subdirectory d failed: its readdir, or the stat of one of its entries.
EagerFailedIn(d) ==
    /\ listed.op = "eager" /\ workspaceOpen
    /\ d \in Entries /\ fs[d].isDir /\ Visible(d)
    /\ FaultIn(d)

\* A lazy listing of an existing directory that met no fault returned a
\* node for each of its entries but the skipped directories.
LazyComplete ==
    \A d \in DOMAIN fs :
        ( listed.op = "lazy" /\ ListedCleanly(d) )
        => \A p \in Children(d) :
               IF fs[p].isDir
               THEN ~C4_ExcludedName(Last(p)) => HasItem("folder", p)
               ELSE HasItem("file", p)

\* C17: a read error in one directory does not abort the overall listing.
\* When, in an eager listing, the listing of a subdirectory fails, the
\* result still holds the folder node of that subdirectory and a node for
\* every entry outside it that a complete listing shows (the entries of its
\* parent that come after it, and what lies below them, included).  And a
\* lazy listing that follows a failed lazy listing is complete.
C17_ReadErrorDoesNotAbortListing ==
    /\ [] ( \A d \in DOMAIN fs :
               EagerFailedIn(d)
               => /\ HasItem("folder", d)
                  /\ \A p \in Entries :
                         ( Visible(p) /\ ~Below(p, d) )
                         => HasItem(IF fs[p].isDir THEN "folder" ELSE "file", p) )
    /\ [][ ( listed.op = "lazy" /\ listed.fault # NoFault ) => LazyComplete' ]_vars

\* An eager listing in which readdir returned the directory a before the
\* file B and the readdir of a failed: the folder node of a and the file node
\* of B are in the result.
C17_Witness ==
    /\ EagerFailedIn(<< << "a" >> >>)
    /\ listed.fault = [ op |-> "readdir", path |-> << << "a" >> >> ]
    /\ listed.entries = << << "a" >>, << "B" >> >>
    /\ HasItem("folder", << << "a" >> >>)
    /\ HasItem("file", << << "B" >> >>)

\* The entries of the directory d that a listing of d shows.
Shown(d) == { p \in Children(d) : ~(fs[p].isDir /\ C4_ExcludedName(Last(p))) }

\* C18: lazy expansion.  getChildren lists one directory: the workspace
\* folder when it is given no node, the folder's path when it is given a
\* folder node.  Its result holds nodes of direct entries of that directory
\* only, never of deeper levels, and when the listing meets no read error,
\* exactly one node for each direct entry that is not a skipped directory.
\* It returns the empty sequence for a file node and, given no node, when no
\* workspace folder is open.
C18_LazyExpansion ==
    /\ ( listed.op = "lazy" /\ listed.dir = None ) => items = << >>
    /\ ( listed.op = "lazy" /\ ~workspaceOpen ) => items = << >>
    /\ ( listed.op = "lazy" /\ listed.dir # None )
       => \A i \in 1..Len(items) :
              /\ items[i].fullPath \in Entries
              /\ Parent(items[i].fullPath) = listed.dir[1]
    /\ \A d \in DOMAIN fs :
           ( listed.op = "lazy" /\ ListedCleanly(d) )
           => /\ Len(items) = Cardinality(Shown(d))
              /\ \A p \in Shown(d) :
                     HasItem(IF fs[p].isDir THEN "folder" ELSE "file", p)

\* A lazy listing of the workspace folder, which holds the directory a with
\* the file B in it: the result is the folder node of a alone.
C18_Witness ==
    /\ listed.op = "lazy" /\ ListedCleanly(Root)
    /\ << << "a" >>, << "B" >> >> \in DOMAIN fs
    /\ Len(items) = 1 /\ HasItem("folder", << << "a" >> >>)

\* A lazy listing asked for the children of a file node.
C18_WitnessFile ==
    /\ listed.op = "lazy" /\ listed.dir = None /\ workspaceOpen
    /\ Entries # { } /\ items = << >>

====
